---- MODULE Spec2Model ----
(***************************************************************************)
(* A model of the `bess` crate: the Document builder (src/src/build.rs),   *)
(* the block envelope and bodies (src/src/block/), the footer              *)
(* (src/src/lib.rs), the serde encoder (src/src/serde/ser/) and the serde  *)
(* decoder (src/src/serde/de/).                                            *)
(*                                                                         *)
(* Representation                                                          *)
(*  - A byte buffer (Vec<u8>, &[u8]) is a sequence of integers.  An        *)
(*    element 0..255 is one byte.  A negative element -n stands for a run  *)
(*    of n zero bytes: it lets a buffer longer than 2^32 bytes be written  *)
(*    down.  Runs occur only in the context blob handed to build.          *)
(*  - A u32 or usize value is a record [hi, lo] of 16-bit halves, the      *)
(*    value being hi * 2^16 + lo, because the integers of TLC end at      *)
(*    2^31 - 1.  A u32 has hi < 2^16; a usize (64 bit) may have more.      *)
(*  - Option<T> is a sequence of length 0 (None) or 1 (Some).              *)
(*  - Result<T> is [ok |-> TRUE, val |-> v] or [ok |-> FALSE, err |-> e].  *)
(*  - A call that panics instead of returning has the outcome              *)
(*    [ok |-> FALSE, panic |-> the panic's message].                       *)
(*  - A Deserializer is its field input: the bytes not yet consumed.  A    *)
(*    decoding method yields [res |-> its outcome, de |-> the input left]. *)
(***************************************************************************)
EXTENDS Integers, Sequences, FiniteSets, TLC

(***************************************************************************)
(* Bounds of the model.                                                    *)
(***************************************************************************)
\* Most calls of Builder::block before build.
MaxXtra == 2
\* Most explicit (non-run) bytes of the context blob handed to build.
MaxCtx == 2
\* A value is handed to the client's Serializer while its output is shorter
\* than this.
MaxSer == 2
\* Most elements of a Vec handed to the Serializer.
MaxElems == 2
\* A Deserializer is made over an output of the Serializer of at most this
\* many bytes.
MaxDe == 9

\* The threads that encode the same Document.
MaxThreads == 2

(***************************************************************************)
(* Integers of fixed width.                                                *)
(***************************************************************************)
Half == 2 ^ 16

\* The u32 (or usize) whose value is the small number n.
Wide(n) == [hi |-> n \div Half, lo |-> n % Half]

WideAdd(a, b) ==
    LET lo == a.lo + b.lo
    IN  [hi |-> a.hi + b.hi + (lo \div Half), lo |-> lo % Half]

\* The integer types of the codec, and mem::size_of of each fixed-width
\* type, in bytes.
IntTypes == { "u8", "u16", "u32", "u64", "i8", "i16", "i32", "i64" }

\* The width in bytes of a fixed-width type.
size_of(type) ==
    CASE type \in { "bool", "u8", "i8" } -> 1
      [] type \in { "u16", "i16" } -> 2
      [] type \in { "u32", "i32", "f32" } -> 4
      [] type \in { "u64", "i64", "f64" } -> 8

None == << >>
Some(v) == << v >>

Ok(v) == [ok |-> TRUE, val |-> v]
Err(e) == [ok |-> FALSE, err |-> e]
Panic(msg) == [ok |-> FALSE, panic |-> msg]

WideLe(a, b) == a.hi < b.hi \/ (a.hi = b.hi /\ a.lo <= b.lo)

\* Vec<u8>::len: the number of bytes of a buffer, as a usize.
BufLen(buf) ==
    LET bytes == Cardinality({i \in DOMAIN buf : buf[i] >= 0})
        runs == SelectSeq(buf, LAMBDA e : e < 0)
        sum[i \in 0..Len(runs)] ==
            IF i = 0 THEN Wide(bytes)
            ELSE WideAdd(sum[i - 1], Wide(-runs[i]))
    IN  sum[Len(runs)]

\* u32::try_from(usize) as the builder uses it: Err(TooLarge) when the value
\* does not fit 32 bits.
TryFromTruncating(len) == Ok([hi |-> len.hi % Half, lo |-> len.lo])
u32_try_from(len) ==
    IF len.hi < Half THEN Ok(len) ELSE Err([kind |-> "TooLarge"])

\* u32::from_le_bytes.
from_be_bytes(b) == [hi |-> b[1] * 256 + b[2], lo |-> b[3] * 256 + b[4]]
from_le_bytes(b) == [hi |-> b[4] * 256 + b[3], lo |-> b[2] * 256 + b[1]]

(***************************************************************************)
(* Blocks: identifiers, bodies, headers.                                   *)
(***************************************************************************)
Ident_new(value) == value

Name_IDENT == Ident_new(<< 78, 65, 77, 69 >>)   \* b"NAME"
Info_IDENT == Ident_new(<< 73, 78, 70, 79 >>)   \* b"INFO"
Core_IDENT == Ident_new(<< 67, 79, 82, 69 >>)   \* b"CORE"
End_IDENT == Ident_new(<< 69, 78, 68, 32 >>)    \* b"END "

Info_LEN == 18
Core_LEN == 208
End_LEN == 0

\* Name::new: the text as its UTF-8 bytes.
Name_new(s) == [kind |-> "Name", s |-> s]
\* Info::new
Info_new(title, gchk) == [kind |-> "Info", title |-> title, gchk |-> gchk]
\* End
End == [kind |-> "End"]

\* Data::ident of each body kind.
Data_ident(body) ==
    CASE body.kind = "Name" -> Name_IDENT
      [] body.kind = "Info" -> Info_IDENT
      [] body.kind = "Core" -> Core_IDENT
      [] body.kind = "End" -> End_IDENT

\* Data::len of each body kind.
Data_len(body) ==
    CASE body.kind = "Name" -> u32_try_from(BufLen(body.s)).val
      [] body.kind = "Info" -> Wide(Info_LEN)
      [] body.kind = "Core" -> Wide(Core_LEN)
      [] body.kind = "End" -> Wide(End_LEN)

\* Data::header
Data_header(body) == [ident |-> Data_ident(body), len |-> Data_len(body)]

\* impl From<T: Data> for Block
Block_from(body) == [head |-> Data_header(body), body |-> body]

(***************************************************************************)
(* Footer.                                                                 *)
(***************************************************************************)
MAGIC_BE == from_be_bytes(<< 66, 69, 83, 83 >>)
MAGIC == from_le_bytes(<< 66, 69, 83, 83 >>)    \* b"BESS"

Footer_new(start) == [start |-> start, magic |-> MAGIC]

(***************************************************************************)
(* The values the calls are made with.                                     *)
(***************************************************************************)
Pointer(len, ptr) == [len |-> Wide(len), ptr |-> Wide(ptr)]

\* The memory-mapped registers of build.rs tests::setup.
SetupMmio ==
    << 255, 0, 126, 255, 207, 0, 0, 248, 255, 255, 255, 255, 255, 255, 255, 225,
       0, 128, 243, 193, 135, 255, 0, 0, 0, 0, 0, 0, 0, 0, 0, 255,
       0, 0, 0, 0, 119, 243, 128, 255, 255, 255, 255, 255, 255, 255, 255, 255,
       0, 0, 0, 0, 0, 0, 0, 0, 0, 0, 0, 0, 0, 0, 0, 0,
       145, 1, 0, 0, 153, 0, 0, 252, 0, 0, 0, 0, 255, 255, 255, 255,
       254, 255, 255, 255, 255, 255, 255, 255, 255, 255, 255, 255, 255, 255, 255, 255,
       255, 255, 255, 255, 255, 255, 255, 255, 255, 255, 255, 255, 255, 255, 255, 255,
       255, 255, 255, 255, 255, 255, 255, 255, 255, 255, 255, 255, 255, 255, 255, 255 >>

\* The Core of build.rs tests::setup.
SetupCore ==
    [kind |-> "Core",
     version |-> [major |-> 1, minor |-> 1],
     model |-> << 68, 32, 32, 32 >>,                      \* b"D   "
     reg |-> [pc |-> 256, af |-> 432, bc |-> 19, de |-> 216, hl |-> 333,
              sp |-> 65534, ime |-> TRUE, ie |-> 224, exe |-> "Running",
              mmio |-> SetupMmio],
     mem |-> [wram |-> Pointer(8192, 40960), vram |-> Pointer(8192, 32768),
              eram |-> Pointer(8192, 49152), oam |-> Pointer(160, 65024),
              hram |-> Pointer(127, 65408), bgp |-> Pointer(0, 0),
              obj |-> Pointer(0, 0)]]

\* Another Core: a stopped colour machine with other register values.
OtherCore ==
    [kind |-> "Core",
     version |-> [major |-> 1, minor |-> 258],
     model |-> << 67, 67, 69, 32 >>,                      \* b"CCE "
     reg |-> [pc |-> 4660, af |-> 0, bc |-> 65535, de |-> 1, hl |-> 43981,
              sp |-> 49152, ime |-> FALSE, ie |-> 31, exe |-> "Stopped",
              mmio |-> [i \in 1..128 |-> (i * 7) % 256]],
     mem |-> [wram |-> Pointer(32768, 16), vram |-> Pointer(16384, 32784),
              eram |-> Pointer(0, 0), oam |-> Pointer(160, 49168),
              hram |-> Pointer(127, 49328), bgp |-> Pointer(64, 49455),
              obj |-> Pointer(64, 49519)]]

\* The texts name() is called with: "bess" (tests::setup) and "a".
NameInputs == { << 98, 101, 115, 115 >>, << 97 >> }

\* b"BESS Testing Rom"
SetupTitle ==
    << 66, 69, 83, 83, 32, 84, 101, 115, 116, 105, 110, 103, 32, 82, 111, 109 >>

\* The Info of tests::setup.
SetupInfo == Info_new(SetupTitle, 43981)

InfoInputs == { SetupInfo, Info_new([i \in 1..16 |-> 64 + i], 258) }

CoreInputs == { SetupCore, OtherCore }

\* The bodies block() is called with: any type that implements Data.
BodyInputs == { Name_new(<< 120 >>), SetupInfo, OtherCore, End }

\* The first n bytes of a fixed pattern of distinct bytes.
CtxData(n) == [i \in 1..n |-> (i * 37 + 29) % 256]

\* Two runs of 2^31 - 1 zero bytes: 2^32 - 2 bytes.
BigRun == 32767 * Half + 65535
BigPrefix == << -BigRun, -BigRun >>

\* The context blobs build() is called with: up to MaxCtx explicit bytes,
\* alone or after 2^32 - 2 zero bytes.
CtxInputs ==
    { CtxData(n) : n \in 0..MaxCtx } \cup
    { BigPrefix \o CtxData(n) : n \in 0..MaxCtx }

(***************************************************************************)
(* State.                                                                  *)
(***************************************************************************)
VARIABLES
    name,     \* Builder.name : Option<Name>
    info,     \* Builder.info : Option<Info>
    core,     \* Builder.core : Needed<Core>
    xtra,     \* Builder.xtra : Vec<Block>
    pc,       \* "builder": the builder is live; "built" / "failed": build
              \* returned Ok / Err; "encoded": to_bytes returned
    bess,     \* Option<Bess>: the Document build returned
    err,      \* Option<Error>: the error build returned
    output,   \* the bytes to_bytes returned
    calls,    \* history: the last argument of name(), info(), core() (an
              \* Option each) and the bodies of the block() calls in order
    arg,      \* history: Option of the context build was called with
    ser,      \* Serializer.output of the Serializer the client drives
    de,       \* Deserializer.input of the Deserializer the client drives
    call,     \* history: Option of the last call made on the codec, as
              \* [op |-> its name, arg |-> its argument, before |-> the
              \* Serializer's output or Deserializer's input before it]
    result,   \* Option of what that call returned: Ok(v), Err(e), or
              \* Panic(msg) when it did not return
    thr,      \* per thread calling to_bytes(&bess): [pc |-> its position in
              \* the call, i |-> the index of the next block to write,
              \* ret |-> Option of the Vec<u8> its last call returned]
    outs      \* per Serializer: its output

builder_vars == << name, info, core, xtra, pc, bess, err, output, calls, arg >>
serde_vars == << ser, de, call, result >>
vars == << name, info, core, xtra, pc, bess, err, output, calls, arg,
           ser, de, call, result, thr, outs >>

\* The threads that hold a &Bess.
Threads == 1..MaxThreads

\* Builder::default, Needed::default
Init ==
    /\ name = None
    /\ info = None
    /\ core = None
    /\ xtra = << >>
    /\ pc = "builder"
    /\ bess = None
    /\ err = None
    /\ output = << >>
    /\ calls = [name |-> None, info |-> None, core |-> None, blocks |-> << >>]
    /\ arg = None
    /\ ser = << >>
    /\ de = << >>
    /\ call = None
    /\ result = None
    /\ thr = [t \in Threads |-> [pc |-> "idle", i |-> 0, ret |-> None]]
    /\ outs = [t \in Threads |-> << >>]

(***************************************************************************)
(* Builder.                                                                *)
(***************************************************************************)
\* Builder::name
Builder_name(n) ==
    /\ pc = "builder"
    /\ name' = Some(Name_new(n))
    /\ calls' = [calls EXCEPT !.name = Some(n)]
    /\ UNCHANGED << info, core, xtra, pc, bess, err, output, arg >>
    /\ UNCHANGED serde_vars
    /\ UNCHANGED << thr, outs >>

\* Builder::info
Builder_info(i) ==
    /\ pc = "builder"
    /\ info' = Some(i)
    /\ calls' = [calls EXCEPT !.info = Some(i)]
    /\ UNCHANGED << name, core, xtra, pc, bess, err, output, arg >>
    /\ UNCHANGED serde_vars
    /\ UNCHANGED << thr, outs >>

\* Builder::core
Builder_core(c) ==
    /\ pc = "builder"
    /\ core' = Some(c)
    /\ calls' = [calls EXCEPT !.core = Some(c)]
    /\ UNCHANGED << name, info, xtra, pc, bess, err, output, arg >>
    /\ UNCHANGED serde_vars
    /\ UNCHANGED << thr, outs >>

\* Vec::push as Builder::block uses it.
PushFront(v, x) == << x >> \o v
Push(v, x) == Append(v, x)

\* Builder::block
Builder_block(body) ==
    /\ pc = "builder"
    /\ Len(xtra) < MaxXtra
    /\ xtra' = Push(xtra, Block_from(body))
    /\ calls' = [calls EXCEPT !.blocks = Append(@, body)]
    /\ UNCHANGED << name, info, core, pc, bess, err, output, arg >>
    /\ UNCHANGED serde_vars
    /\ UNCHANGED << thr, outs >>

\* Needed::get
Needed_get(needed, ident) ==
    IF needed = None THEN Err([kind |-> "Required", ident |-> ident])
    ELSE Ok(Some(needed[1]))

\* Option::map(Block::from)
MapBlock(opt) == IF opt = None THEN None ELSE Some(Block_from(opt[1]))

\* The chain of Builder::build: [name, info, core] flattened, then the extra
\* blocks, then the End block.
ChainExtraFirst(n, i, c, x) == x \o n \o i \o c \o << Block_from(End) >>
Chain(n, i, c, x) == n \o i \o c \o x \o << Block_from(End) >>

\* Builder::build
Builder_build(ctx) ==
    /\ pc = "builder"
    /\ arg' = Some(ctx)
    /\ LET got == Needed_get(core, Core_IDENT)
       IN  IF ~got.ok
           THEN /\ pc' = "failed"
                /\ err' = Some(got.err)
                /\ bess' = None
           ELSE LET blx == Chain(MapBlock(name), MapBlock(info),
                                 MapBlock(got.val), xtra)
                    start == u32_try_from(BufLen(ctx))
                IN  IF ~start.ok
                    THEN /\ pc' = "failed"
                         /\ err' = Some(start.err)
                         /\ bess' = None
                    ELSE /\ pc' = "built"
                         /\ err' = None
                         /\ bess' = Some([ctx |-> ctx, blx |-> blx,
                                          end |-> Footer_new(start.val)])
    /\ UNCHANGED << name, info, core, xtra, output, calls >>
    /\ UNCHANGED serde_vars
    /\ UNCHANGED << thr, outs >>

(***************************************************************************)
(* The encoder (serde/ser).  Each operator is the bytes the Serializer     *)
(* method of that name appends to its output.                              *)
(***************************************************************************)
\* to_le_bytes of an n-byte unsigned integer.
to_be_bytes(v, n) == [i \in 1..n |-> (v \div (256 ^ (n - i))) % 256]
to_le_bytes(v, n) == [i \in 1..n |-> (v \div (256 ^ (i - 1))) % 256]

\* Encode for u8.  (A run of zero bytes is written as the same run.)
serialize_u8(v) == IF v < 0 THEN << v >> ELSE to_le_bytes(v, 1)

\* Encode for u16.
serialize_u16(v) == to_le_bytes(v, 2)

\* Encode for u32: the low half, then the high half, each little-endian.
serialize_u32(v) == to_le_bytes(v.lo, 2) \o to_le_bytes(v.hi, 2)

\* Encode for u64: the low u32, then the high u32.  A u64 is a record
\* [hi, lo] of two u32.
serialize_u64(v) == serialize_u32(v.lo) \o serialize_u32(v.hi)

\* Encode for i8, i16: the two's complement of the value, little-endian.
serialize_i8(v) == to_le_bytes(v % 256, 1)
serialize_i16(v) == to_le_bytes(v % Half, 2)

\* Encode for i32 and i64: an i32 is a record [hi, lo] whose hi is signed,
\* an i64 a record [hi, lo] of an i32 and a u32.
serialize_i32(v) == to_le_bytes(v.lo, 2) \o to_le_bytes(v.hi % Half, 2)
serialize_i64(v) == serialize_u32(v.lo) \o serialize_i32(v.hi)

\* serialize_char, serialize_none, serialize_some: refused.
serialize_char(v) == Err([kind |-> "Unsupported"])
serialize_none_as_unit == Ok(<< >>)
serialize_none == Err([kind |-> "Unsupported"])
serialize_some(value) == Err([kind |-> "Unsupported"])

\* Encode for bool: u8::from(bool).
serialize_bool(v) == serialize_u8(IF v THEN 1 ELSE 0)

\* Encode for &[u8].
serialize_bytes(v) == v

serialize_unit_struct == << >>

serialize_unit_variant(variant_index) ==
    IF variant_index <= 255 THEN serialize_u8(variant_index)
    ELSE IF variant_index <= 65535 THEN serialize_u16(variant_index)
    ELSE serialize_u32(Wide(variant_index))

\* serialize_newtype_variant: value.serialize(self), the index is not used.
serialize_newtype_variant(variant_index, value) == value

\* serialize_tuple_variant, serialize_struct_variant: Ok(self), nothing is
\* written and the index is not used.
serialize_tuple_variant(variant_index, len) == << >>
serialize_struct_variant(variant_index, len) == << >>

\* Opening a sequence of len elements, a tuple, a struct, a map: nothing is
\* written.
serialize_seq_counted(len) == serialize_u32(len)
serialize_seq(len) == << >>
serialize_tuple(len) == << >>
serialize_struct(len) == << >>
serialize_map(len) == << >>

\* SerializeSeq / SerializeTuple::serialize_element, SerializeStruct::
\* serialize_field: the encoding of the value.
serialize_element(value) == value
serialize_field(key, value) == value

\* SerializeMap::serialize_key writes nothing; serialize_value writes the
\* encoding of the value.
serialize_key_written(key) == key
serialize_key(key) == << >>
serialize_value(value) == value

\* The byte strings ss[lo], .., ss[hi] one after the other, as successive
\* writes to the output leave them.
RECURSIVE Concat(_, _, _)
Concat(ss, lo, hi) ==
    IF lo > hi THEN << >>
    ELSE IF lo = hi THEN ss[lo]
    ELSE LET mid == (lo + hi) \div 2
         IN  Concat(ss, lo, mid) \o Concat(ss, mid + 1, hi)

\* The elements' encodings (encs), written one after the other.
Elements(encs) ==
    Concat([i \in 1..Len(encs) |-> serialize_element(encs[i])], 1, Len(encs))

\* Serialize for Vec<T> and &[T]: serialize_seq, then each element.
collect_seq(len, encs) == serialize_seq(len) \o Elements(encs)

\* Serialize for [T; N]: serialize_tuple, then each element.
collect_tuple(encs) == serialize_tuple(Len(encs)) \o Elements(encs)

\* Serialize for [u8] and [u8; N]: each byte by serialize_u8.
EachU8(s) == [i \in 1..Len(s) |-> serialize_u8(s[i])]

\* serialize_str: v.as_bytes().serialize(self)
serialize_str(v) == collect_seq(BufLen(v), EachU8(v))

\* serialize_newtype_struct: value.serialize(self)
serialize_newtype_struct(value) == value

(***************************************************************************)
(* The derived Serialize of each type: its fields in declaration order.    *)
(***************************************************************************)
Serialize_Ident(i) == serialize_newtype_struct(collect_tuple(EachU8(i)))

Serialize_Header(h) ==
    serialize_struct(2)
    \o serialize_field("ident", Serialize_Ident(h.ident))
    \o serialize_field("len", serialize_u32(h.len))

Serialize_Name(b) == serialize_newtype_struct(serialize_str(b.s))

Serialize_Info(b) ==
    serialize_struct(2)
    \o serialize_field("title", collect_tuple(EachU8(b.title)))
    \o serialize_field("gchk", serialize_u16(b.gchk))

Serialize_Version(v) ==
    serialize_struct(2)
    \o serialize_field("major", serialize_u16(v.major))
    \o serialize_field("minor", serialize_u16(v.minor))

Serialize_Model(m) == serialize_newtype_struct(collect_tuple(EachU8(m)))

\* The variant index of an Execution.
VariantIndex(e) ==
    CASE e = "Running" -> 0
      [] e = "Halted" -> 1
      [] e = "Stopped" -> 2

Serialize_Execution(e) == serialize_unit_variant(VariantIndex(e))

Serialize_Registers(r) ==
    serialize_struct(10)
    \o serialize_field("pc", serialize_u16(r.pc))
    \o serialize_field("af", serialize_u16(r.af))
    \o serialize_field("bc", serialize_u16(r.bc))
    \o serialize_field("de", serialize_u16(r.de))
    \o serialize_field("hl", serialize_u16(r.hl))
    \o serialize_field("sp", serialize_u16(r.sp))
    \o serialize_field("ime", serialize_bool(r.ime))
    \o serialize_field("ie", serialize_u8(r.ie))
    \o serialize_field("exe", Serialize_Execution(r.exe))
    \o serialize_field("mmio", serialize_bytes(r.mmio))

Serialize_Pointer(p) ==
    serialize_struct(2)
    \o serialize_field("len", serialize_u32(p.len))
    \o serialize_field("ptr", serialize_u32(p.ptr))

Serialize_Locations(m) ==
    serialize_struct(7)
    \o serialize_field("wram", Serialize_Pointer(m.wram))
    \o serialize_field("vram", Serialize_Pointer(m.vram))
    \o serialize_field("eram", Serialize_Pointer(m.eram))
    \o serialize_field("oam", Serialize_Pointer(m.oam))
    \o serialize_field("hram", Serialize_Pointer(m.hram))
    \o serialize_field("bgp", Serialize_Pointer(m.bgp))
    \o serialize_field("obj", Serialize_Pointer(m.obj))

Serialize_Core(b) ==
    serialize_struct(4)
    \o serialize_field("version", Serialize_Version(b.version))
    \o serialize_field("model", Serialize_Model(b.model))
    \o serialize_field("reg", Serialize_Registers(b.reg))
    \o serialize_field("mem", Serialize_Locations(b.mem))

Serialize_End(b) == serialize_unit_struct

\* The body's own encoding, by its concrete type.
Serialize_Body(body) ==
    CASE body.kind = "Name" -> Serialize_Name(body)
      [] body.kind = "Info" -> Serialize_Info(body)
      [] body.kind = "Core" -> Serialize_Core(body)
      [] body.kind = "End" -> Serialize_End(body)

\* The name typetag registers a body type under: its type name, in ASCII.
TypeName(body) ==
    CASE body.kind = "Name" -> << 78, 97, 109, 101 >>
      [] body.kind = "Info" -> << 73, 110, 102, 111 >>
      [] body.kind = "Core" -> << 67, 111, 114, 101 >>
      [] body.kind = "End" -> << 69, 110, 100 >>

\* Serialize for Box<dyn Data> (typetag): a map of one entry, the type's name
\* as the key and the body as the value.
Serialize_Data(body) ==
    serialize_map(1)
    \o serialize_key(TypeName(body))
    \o serialize_value(Serialize_Body(body))

Serialize_Block(b) ==
    serialize_struct(2)
    \o serialize_field("head", Serialize_Header(b.head))
    \o serialize_field("body", Serialize_Data(b.body))

Serialize_Footer(f) ==
    serialize_struct(2)
    \o serialize_field("start", serialize_u32(f.start))
    \o serialize_field("magic", serialize_u32(f.magic))

Serialize_Bess(b) ==
    serialize_struct(3)
    \o serialize_field("ctx", collect_seq(BufLen(b.ctx), EachU8(b.ctx)))
    \o serialize_field("blx",
                       collect_seq(Wide(Len(b.blx)),
                                   [i \in 1..Len(b.blx) |->
                                       Serialize_Block(b.blx[i])]))
    \o serialize_field("end", Serialize_Footer(b.end))

\* ser::to_bytes: a fresh Serializer, the Document serialized into it, its
\* output returned.  The Document is read by reference.
to_bytes ==
    /\ pc = "built"
    /\ output' = Serialize_Bess(bess[1])
    /\ pc' = "encoded"
    /\ UNCHANGED << name, info, core, xtra, bess, err, calls, arg >>
    /\ UNCHANGED serde_vars
    /\ UNCHANGED << thr, outs >>

(***************************************************************************)
(* The decoder (serde/de).                                                 *)
(***************************************************************************)
\* &input[..len]: the first len bytes.  Only the whole buffer, or fewer
\* bytes than a run of zero bytes holds, are asked for.
RECURSIVE Prefix(_, _)
Prefix(buf, n) ==
    IF n = 0 \/ buf = << >> THEN << >>
    ELSE IF buf[1] < 0 THEN [i \in 1..n |-> 0]
    ELSE << buf[1] >> \o Prefix(Tail(buf), n - 1)

SliceTo(buf, len) == IF len = BufLen(buf) THEN buf ELSE Prefix(buf, len.lo)

\* SeqAccess::next_element_seed: todo!()
next_element_seed(d) == Panic("not yet implemented")

\* Visitor::visit_seq of the visitor a type hands to the Deserializer.  The
\* derived visitor of a struct of n fields asks for one element per field,
\* the visitor of Vec<T> asks for elements until there is none: both ask for
\* a first element unless the struct has no field.  The visitor of a map
\* has no visit_seq of its own: serde's default refuses with
\* Error::custom("invalid type: sequence, expected a map").
visit_seq(visitor, d) ==
    IF visitor.kind = "map" THEN Err([kind |-> "Message"])
    ELSE IF visitor.kind = "struct" /\ visitor.n = 0 THEN Ok(<< >>)
    ELSE next_element_seed(d)

\* deserialize_tuple: a Deserializer over the first len bytes of the input
\* is handed to the visitor; the input itself is not advanced.
deserialize_tuple(d, len, visitor) ==
    IF ~WideLe(len, BufLen(d))
    THEN [res |-> Panic("range end index out of range"), de |-> d]
    ELSE [res |-> visit_seq(visitor, SliceTo(d, len)), de |-> d]

\* deserialize_struct: deserialize_tuple(fields.len(), visitor)
deserialize_struct(d, fields) ==
    deserialize_tuple(d, Wide(fields), [kind |-> "struct", n |-> fields])

\* deserialize_seq: deserialize_tuple(self.input.len(), visitor)
deserialize_seq(d) == deserialize_tuple(d, BufLen(d), [kind |-> "seq"])

\* Deserializer::pop_ref::<N>: assert!(N <= self.input.len()), then the
\* first N bytes are split off the input.
pop_ref(d, N) ==
    IF N <= Len(d)
    THEN [res |-> Ok(SubSeq(d, 1, N)), de |-> SubSeq(d, N + 1, Len(d))]
    ELSE [res |-> Panic("assertion failed: N <= self.input.len()"), de |-> d]

\* from_le_bytes of each integer type, on the representation of its values.
u8_from_le_bytes(b) == b[1]
u16_from_le_bytes(b) == b[2] * 256 + b[1]
u64_from_le_bytes(b) ==
    [hi |-> from_le_bytes(SubSeq(b, 5, 8)), lo |-> from_le_bytes(SubSeq(b, 1, 4))]
i8_from_le_bytes(b) == IF b[1] >= 128 THEN b[1] - 256 ELSE b[1]
i16_from_le_bytes(b) ==
    IF b[2] >= 128 THEN b[2] * 256 + b[1] - Half ELSE b[2] * 256 + b[1]
i32_from_le_bytes(b) ==
    [hi |-> i16_from_le_bytes(SubSeq(b, 3, 4)), lo |-> u16_from_le_bytes(b)]
i64_from_le_bytes(b) ==
    [hi |-> i32_from_le_bytes(SubSeq(b, 5, 8)), lo |-> from_le_bytes(SubSeq(b, 1, 4))]

\* X::from_le_bytes of the type named: a float is kept as its bits.
X_from_le_bytes(type, b) ==
    CASE type = "u8" -> u8_from_le_bytes(b)
      [] type = "u16" -> u16_from_le_bytes(b)
      [] type \in { "u32", "f32" } -> from_le_bytes(b)
      [] type \in { "u64", "f64" } -> u64_from_le_bytes(b)
      [] type = "i8" -> i8_from_le_bytes(b)
      [] type = "i16" -> i16_from_le_bytes(b)
      [] type = "i32" -> i32_from_le_bytes(b)
      [] type = "i64" -> i64_from_le_bytes(b)

\* deserialize_i8 .. deserialize_f64:
\* visitor.visit_X(X::from_le_bytes(*self.pop_ref()))
deserialize_X(d, type) ==
    LET got == pop_ref(d, size_of(type))
    IN  IF ~got.res.ok THEN got
        ELSE [res |-> Ok(X_from_le_bytes(type, got.res.val)), de |-> got.de]

deserialize_u32(d) == deserialize_X(d, "u32")

\* deserialize_bool: one byte; 0 is false, 1 is true, anything else panic!()
deserialize_bool(d) ==
    LET got == pop_ref(d, 1)
    IN  IF ~got.res.ok THEN got
        ELSE IF u8_from_le_bytes(got.res.val) = 0
             THEN [res |-> Ok(FALSE), de |-> got.de]
        ELSE IF u8_from_le_bytes(got.res.val) = 1
             THEN [res |-> Ok(TRUE), de |-> got.de]
        ELSE [res |-> Panic("explicit panic"), de |-> got.de]

\* deserialize_any, deserialize_char, deserialize_option: refused.
deserialize_any(d) == [res |-> Err([kind |-> "Unsupported"]), de |-> d]
deserialize_char(d) == [res |-> Err([kind |-> "Unsupported"]), de |-> d]
deserialize_option(d) == [res |-> Err([kind |-> "Unsupported"]), de |-> d]

\* deserialize_map: deserialize_tuple(self.input.len(), visitor)
deserialize_map(d) == deserialize_tuple(d, BufLen(d), [kind |-> "map"])

\* EnumAccess::variant_seed for an enum of that many variants: the index is
\* read as a u32 and handed to the variant identifier's visitor, which
\* refuses an index that names no variant.
variant_seed(d, variants) ==
    LET idx == deserialize_u32(d)
    IN  IF ~idx.res.ok THEN idx
        ELSE IF idx.res.val.hi = 0 /\ idx.res.val.lo < variants
             THEN [res |-> Ok(idx.res.val.lo), de |-> idx.de]
        ELSE [res |-> Err([kind |-> "Message"]), de |-> idx.de]

\* VariantAccess::unit_variant
unit_variant == Ok(<< >>)

\* deserialize_enum for an enum of zero-field variants: visitor.visit_enum,
\* which asks for the variant and then for its unit payload.
deserialize_enum(d, variants) ==
    LET got == variant_seed(d, variants)
    IN  IF ~got.res.ok \/ ~unit_variant.ok THEN got
        ELSE [res |-> Ok([index |-> got.res.val]), de |-> got.de]

\* T::deserialize(&mut de): the Deserializer method serde calls for the type.
Deserialize(d, t) ==
    CASE t.type \in IntTypes \cup { "f32", "f64" } -> deserialize_X(d, t.type)
      [] t.type = "bool" -> deserialize_bool(d)
      [] t.type = "char" -> deserialize_char(d)
      [] t.type = "option" -> deserialize_option(d)
      [] t.type = "any" -> deserialize_any(d)
      [] t.type = "map" -> deserialize_map(d)
      [] t.type = "enum" -> deserialize_enum(d, t.variants)
      [] t.type = "seq" -> deserialize_seq(d)
      [] t.type = "struct" -> deserialize_struct(d, Len(t.fields))

\* The derived Deserialize of the structs decoding starts from.
Deserialize_Bess(d) == deserialize_struct(d, 3)
Deserialize_Footer(d) == deserialize_struct(d, 2)
Deserialize_Header(d) == deserialize_struct(d, 2)

\* de::from_bytes: the Document deserialized from a fresh Deserializer over
\* the bytes; input left over is todo!().
from_bytes(bytes) ==
    LET got == Deserialize_Bess(bytes)
    IN  IF ~got.res.ok THEN got.res
        ELSE IF got.de = << >> THEN got.res
        ELSE Panic("not yet implemented: trailing characters")

\* TryFrom<&[u8]> for Bess: from_bytes(bytes).
try_from(bytes) ==
    /\ call' = Some([op |-> "try_from", arg |-> bytes, before |-> << >>])
    /\ result' = Some(from_bytes(bytes))
    /\ UNCHANGED << ser, de >>
    /\ UNCHANGED builder_vars
    /\ UNCHANGED << thr, outs >>

(***************************************************************************)
(* The specification.                                                      *)
(***************************************************************************)
Next ==
    \/ \E n \in NameInputs : Builder_name(n)
    \/ \E i \in InfoInputs : Builder_info(i)
    \/ \E c \in CoreInputs : Builder_core(c)
    \/ \E body \in BodyInputs : Builder_block(body)
    \/ \E ctx \in CtxInputs : Builder_build(ctx)
    \/ to_bytes
    \/ pc = "encoded" /\ call = None /\ try_from(output)

Spec == Init /\ [][Next]_vars

(***************************************************************************)
(* Vocabulary of the properties.                                           *)
(***************************************************************************)
\* build has returned.
Returned == pc \in {"built", "failed", "encoded"}
\* build has returned a Document.
Built == pc \in {"built", "encoded"}

\* The Document build returned, the bodies and the identifiers of its blocks.
Doc == bess[1]
Bodies == [i \in 1..Len(Doc.blx) |-> Doc.blx[i].body]
Idents == [i \in 1..Len(Doc.blx) |-> Doc.blx[i].head.ident]

\* How many of the Document's blocks carry the identifier id.
Count(id) == Cardinality({i \in 1..Len(Doc.blx) : Doc.blx[i].head.ident = id})

\* The four bytes of a u32, least significant first.
Le32(v) == << v.lo % 256, v.lo \div 256, v.hi % 256, v.hi \div 256 >>

\* The last n elements of a sequence.
LastN(s, n) == SubSeq(s, Len(s) - n + 1, Len(s))

\* The sequences of a sequence of sequences, one after the other.
Flatten(ss) ==
    LET upto[i \in 0..Len(ss)] ==
            IF i = 0 THEN << >> ELSE upto[i - 1] \o ss[i]
    IN  upto[Len(ss)]

\* The byte length of the context exceeds 2^32 - 1.
ExceedsU32(ctx) == BufLen(ctx).hi >= 65536

(***************************************************************************)
(* C1                                                                      *)
(***************************************************************************)
\* The bodies the calls made so far ask for, in the order of the format.
CalledBodies ==
    (IF calls.name = None THEN << >>
     ELSE << [kind |-> "Name", s |-> calls.name[1]] >>)
    \o calls.info \o calls.core \o calls.blocks \o << [kind |-> "End"] >>

\* C1: whenever build returns a Document, its blocks are the Name block (if
\* name() was called), the Info block (if info() was called), the Core block,
\* the bodies of the block() calls in call order, and an End block, each under
\* the identifier of its kind.
C1_BuildOrder ==
    Built =>
        /\ Bodies = CalledBodies
        /\ \A i \in 1..Len(Doc.blx) :
               Doc.blx[i].head.ident = Data_ident(Doc.blx[i].body)

\* C1 witness: a Document built after name(), info(), core() and two block()
\* calls with different bodies.
C1_Witness ==
    /\ pc = "built"
    /\ calls.name # None
    /\ calls.info # None
    /\ Len(calls.blocks) = 2
    /\ calls.blocks[1] # calls.blocks[2]

(***************************************************************************)
(* C2                                                                      *)
(***************************************************************************)
\* C2: build without a core() call fails with Required("CORE") and returns no
\* Document; build after core() and without name() and info() calls succeeds
\* (for a context that fits the footer) and returns a Document that holds no
\* NAME and no INFO block.
C2_RequiredCore ==
    Returned =>
        /\ calls.core = None =>
               /\ pc = "failed"
               /\ err = Some([kind |-> "Required", ident |-> << 67, 79, 82, 69 >>])
               /\ bess = None
        /\ (calls.core # None /\ calls.name = None /\ calls.info = None
                /\ ~ExceedsU32(arg[1])) =>
               /\ Built
               /\ Count(<< 78, 65, 77, 69 >>) = 0
               /\ Count(<< 73, 78, 70, 79 >>) = 0

(***************************************************************************)
(* C3                                                                      *)
(***************************************************************************)
\* C3: in every built Document the len of each block's header is the number
\* of bytes the encoder writes for the body of that block.
C3_HeaderLen ==
    Built =>
        \A i \in 1..Len(Doc.blx) :
            Doc.blx[i].head.len = BufLen(Serialize_Data(Doc.blx[i].body))

(***************************************************************************)
(* C4                                                                      *)
(***************************************************************************)
\* C4: every built Document holds exactly one END block, and it is the last
\* block.
C4_OneEndLast ==
    Built =>
        /\ Count(<< 69, 78, 68, 32 >>) = 1
        /\ Doc.blx[Len(Doc.blx)].head.ident = << 69, 78, 68, 32 >>

(***************************************************************************)
(* C5                                                                      *)
(***************************************************************************)
\* C5: every built Document holds at most one NAME block, at most one INFO
\* block and exactly one CORE block.
C5_AtMostOne ==
    Built =>
        /\ Count(<< 78, 65, 77, 69 >>) <= 1
        /\ Count(<< 73, 78, 70, 79 >>) <= 1
        /\ Count(<< 67, 79, 82, 69 >>) = 1

(***************************************************************************)
(* C6                                                                      *)
(***************************************************************************)
\* C6: every built Document has a footer whose start is the byte length of
\* the context build was called with and whose magic is 0x53534542, and its
\* context is that context.
C6_Footer ==
    Built =>
        /\ Doc.end.start = BufLen(arg[1])
        /\ Doc.end.magic = [hi |-> 21331, lo |-> 17730]
        /\ Doc.ctx = arg[1]

\* C6 witness: a Document built on a context of 2^32 - 1 bytes.
C6_Witness ==
    /\ pc = "built"
    /\ Doc.ctx = BigPrefix \o CtxData(1)
    /\ Doc.end.start = [hi |-> 65535, lo |-> 65535]

(***************************************************************************)
(* C7                                                                      *)
(***************************************************************************)
\* C7: after core(), build fails with TooLarge and returns no Document
\* exactly when the context is longer than 2^32 - 1 bytes, and returns a
\* Document for every shorter context.
C7_TooLarge ==
    (Returned /\ calls.core # None) =>
        /\ ExceedsU32(arg[1]) <=>
               (pc = "failed" /\ err = Some([kind |-> "TooLarge"]) /\ bess = None)
        /\ ~ExceedsU32(arg[1]) => (Built /\ bess # None)

\* C7 witness: build after core() failed with TooLarge on a context of 2^32
\* bytes.
C7_Witness ==
    /\ pc = "failed"
    /\ calls.core # None
    /\ err = Some([kind |-> "TooLarge"])
    /\ BufLen(arg[1]) = [hi |-> 65536, lo |-> 0]

(***************************************************************************)
(* C8                                                                      *)
(***************************************************************************)
\* One block on the wire: identifier, len, the body's own encoding.
Envelope(b) == b.head.ident \o Le32(b.head.len) \o Serialize_Body(b.body)

\* C8: the bytes to_bytes returns are the context, then each block of the
\* Document in order as identifier, little-endian len and body, then the
\* footer as little-endian start and magic, which are the last 8 bytes.
C8_Layout ==
    pc = "encoded" =>
        /\ output = Doc.ctx
                    \o Flatten([i \in 1..Len(Doc.blx) |-> Envelope(Doc.blx[i])])
                    \o Le32(Doc.end.start) \o Le32(Doc.end.magic)
        /\ LastN(output, 8) = Le32(Doc.end.start) \o << 66, 69, 83, 83 >>

\* C8 witness: the encoding of a Document with a context of two bytes and
\* five blocks.
C8_Witness ==
    /\ pc = "encoded"
    /\ Doc.ctx = CtxData(2)
    /\ Len(Doc.blx) = 5
    /\ Len(output) > 2 + 5 * 8 + 8

(***************************************************************************)
(* C9                                                                      *)
(***************************************************************************)
\* The buffer after its first n bytes (n a u32), if the n-th byte ends an
\* element of the buffer.
Skip(buf, n) ==
    LET ks == {k \in 0..Len(buf) : BufLen(SubSeq(buf, 1, k)) = n}
    IN  IF ks = {} THEN None
        ELSE Some(SubSeq(buf, (CHOOSE k \in ks : TRUE) + 1, Len(buf)))

\* The identifiers a reader meets that reads a header of 8 bytes, skips len
\* bytes and goes on until 8 bytes are left; an empty identifier is added
\* where the reader cannot go on or runs past that point.
RECURSIVE Walk(_)
Walk(rest) ==
    IF Len(rest) = 8 THEN << >>
    ELSE IF Len(rest) < 16 THEN << << >> >>
    ELSE LET hi == rest[8] * 256 + rest[7]
             lo == rest[6] * 256 + rest[5]
         IN  IF hi > 0 \/ 8 + lo > Len(rest) - 8
             THEN << SubSeq(rest, 1, 4), << >> >>
             ELSE << SubSeq(rest, 1, 4) >>
                  \o Walk(SubSeq(rest, 8 + lo + 1, Len(rest)))

\* C9: in the bytes to_bytes returns, the walk from offset footer.start over
\* headers and lens meets the identifiers of the Document's blocks in order
\* and ends at the first byte of the footer.
C9_Walk ==
    pc = "encoded" =>
        LET region == Skip(output, Doc.end.start)
        IN  /\ region # None
            /\ Walk(region[1]) = Idents

(***************************************************************************)
(* C10                                                                     *)
(***************************************************************************)
\* The reference buffer of build.rs tests::BYTES.
BYTES ==
    << 78, 65, 77, 69, 4, 0, 0, 0, 98, 101, 115, 115, 73, 78, 70, 79,
       18, 0, 0, 0, 66, 69, 83, 83, 32, 84, 101, 115, 116, 105, 110, 103,
       32, 82, 111, 109, 205, 171, 67, 79, 82, 69, 208, 0, 0, 0, 1, 0,
       1, 0, 68, 32, 32, 32, 0, 1, 176, 1, 19, 0, 216, 0, 77, 1,
       254, 255, 1, 224, 0, 255, 0, 126, 255, 207, 0, 0, 248, 255, 255, 255,
       255, 255, 255, 255, 225, 0, 128, 243, 193, 135, 255, 0, 0, 0, 0, 0,
       0, 0, 0, 0, 255, 0, 0, 0, 0, 119, 243, 128, 255, 255, 255, 255,
       255, 255, 255, 255, 255, 0, 0, 0, 0, 0, 0, 0, 0, 0, 0, 0,
       0, 0, 0, 0, 0, 145, 1, 0, 0, 153, 0, 0, 252, 0, 0, 0,
       0, 255, 255, 255, 255, 254, 255, 255, 255, 255, 255, 255, 255, 255, 255, 255,
       255, 255, 255, 255, 255, 255, 255, 255, 255, 255, 255, 255, 255, 255, 255, 255,
       255, 255, 255, 255, 255, 255, 255, 255, 255, 255, 255, 255, 255, 255, 255, 255,
       255, 255, 255, 255, 255, 0, 32, 0, 0, 0, 160, 0, 0, 0, 32, 0,
       0, 0, 128, 0, 0, 0, 32, 0, 0, 0, 192, 0, 0, 160, 0, 0,
       0, 0, 254, 0, 0, 127, 0, 0, 0, 128, 255, 0, 0, 0, 0, 0,
       0, 0, 0, 0, 0, 0, 0, 0, 0, 0, 0, 0, 0, 69, 78, 68,
       32, 0, 0, 0, 0, 0, 0, 0, 0, 66, 69, 83, 83 >>

\* The calls of build.rs tests::setup: name("bess"), info(..), core(..),
\* build([]).
SetupCalls ==
    /\ calls = [name |-> Some(<< 98, 101, 115, 115 >>), info |-> Some(SetupInfo),
                core |-> Some(SetupCore), blocks |-> << >>]
    /\ arg = Some(<< >>)

\* C10 as stated: the encoding of the Document of tests::setup is the
\* reference buffer, 222 bytes long, ending in 00 00 00 00 42 45 53 53.
C10_Reference222 ==
    (pc = "encoded" /\ SetupCalls) =>
        /\ output = BYTES
        /\ Len(output) = 222
        /\ LastN(output, 8) = << 0, 0, 0, 0, 66, 69, 83, 83 >>

\* C10 amended: the encoding of the Document of tests::setup is the
\* reference buffer, 269 bytes long, ending in 00 00 00 00 42 45 53 53.
C10_Reference ==
    (pc = "encoded" /\ SetupCalls) =>
        /\ output = BYTES
        /\ Len(output) = 269
        /\ LastN(output, 8) = << 0, 0, 0, 0, 66, 69, 83, 83 >>

\* C10 witness: the Document of tests::setup has been encoded.
C10_Witness == pc = "encoded" /\ SetupCalls

(***************************************************************************)
(* Decode for Bess (serde/de/decode.rs).                                   *)
(***************************************************************************)
\* A usize of 64 bits as its four 16-bit limbs, the lowest first: the value
\* of the integer n modulo 2^64 (n may be negative).
Usize(n) ==
    << n % Half,
       (n \div Half) % Half,
       ((n \div Half) \div Half) % Half,
       (((n \div Half) \div Half) \div Half) % Half >>

\* a <= b on such values.
UsizeLe(a, b) ==
    \/ a = b
    \/ \E i \in 1..4 : a[i] < b[i] /\ \A j \in (i + 1)..4 : a[j] = b[j]

\* mem::size_of::<Footer>(): two u32.
size_of_Footer == 4 + 4

\* len - size_of::<Footer>() on usize: with overflow checks (a debug build)
\* a subtraction below zero panics, without them (a release build) it wraps.
usize_sub(a, b, checks) ==
    IF a < b /\ checks THEN Panic("attempt to subtract with overflow")
    ELSE Ok(Usize(a - b))

\* <[u8]>::get(from..to) with usize bounds: None when from > to or to > len.
slice_get(buf, from, to) ==
    IF UsizeLe(from, to) /\ UsizeLe(to, Usize(Len(buf)))
    THEN Some(SubSeq(buf, from[1] + 1, to[1]))
    ELSE None

\* The block loop of decode: while input is left, a Header is deserialized
\* and the body is todo!().
decode_blocks(d) ==
    IF d = << >> THEN Ok(<< >>)
    ELSE LET head == Deserialize_Header(d)
         IN  IF ~head.res.ok THEN head.res
             ELSE Panic("not yet implemented")

\* Decode for Bess: the footer from the last 8 bytes, the context from the
\* bytes before footer.start, the blocks from the bytes between.
Bess_decode(buf, checks) ==
    LET len == Len(buf)
        ftx == usize_sub(len, size_of_Footer, checks)
    IN  IF ~ftx.ok THEN ftx
        ELSE
        LET tail == slice_get(buf, ftx.val, Usize(len))
        IN  IF tail = None THEN Err([kind |-> "TooShort"])
            ELSE
            LET end == Deserialize_Footer(tail[1]).res
            IN  IF ~end.ok THEN end
                ELSE
                LET start == << end.val.start.lo, end.val.start.hi, 0, 0 >>
                    ctx == slice_get(buf, Usize(0), start)
                    region == slice_get(buf, start, ftx.val)
                IN  IF ctx = None \/ region = None
                    THEN Err([kind |-> "TooShort"])
                    ELSE
                    LET blx == decode_blocks(region[1])
                    IN  IF ~blx.ok THEN blx
                        ELSE Ok([ctx |-> ctx[1], blx |-> blx.val,
                                 end |-> end.val])

\* Bess::decode called with a reader that yields the bytes.
decode(bytes, checks) ==
    /\ call' = Some([op |-> "decode", arg |-> bytes, before |-> << >>])
    /\ result' = Some(Bess_decode(bytes, checks))
    /\ UNCHANGED << ser, de >>
    /\ UNCHANGED builder_vars
    /\ UNCHANGED << thr, outs >>

(***************************************************************************)
(* Values handed to a Serializer.  A value is a record with its type and,  *)
(* by type: v (a primitive), index (a variant), value (the payload of a    *)
(* newtype variant or of Some), fields (the payload of a tuple or struct   *)
(* variant), entries (the [key, value] pairs of a map), elems (the         *)
(* elements of a Vec or of an array), fields (the [name, value] pairs of a *)
(* struct).  Payloads, keys and values of maps are integers; elements are  *)
(* integers or strs; a field of a struct is an integer, a str, a Vec or an *)
(* array.                                                                  *)
(***************************************************************************)
\* Serialize for an integer or a bool: the Serializer method of its type.
Serialize_Int(x) ==
    CASE x.type = "u8" -> serialize_u8(x.v)
      [] x.type = "u16" -> serialize_u16(x.v)
      [] x.type = "u32" -> serialize_u32(x.v)
      [] x.type = "u64" -> serialize_u64(x.v)
      [] x.type = "i8" -> serialize_i8(x.v)
      [] x.type = "i16" -> serialize_i16(x.v)
      [] x.type = "i32" -> serialize_i32(x.v)
      [] x.type = "i64" -> serialize_i64(x.v)
      [] x.type = "bool" -> serialize_bool(x.v)

\* The fields of a tuple or struct variant: serialize_field of each.
Fields(fs) == Flatten([i \in 1..Len(fs) |-> serialize_field(i, Serialize_Int(fs[i]))])

\* The entries of a map: serialize_key, then serialize_value of each.
Entries(es) ==
    Flatten([i \in 1..Len(es) |->
                serialize_key(Serialize_Int(es[i].key))
                \o serialize_value(Serialize_Int(es[i].value))])

\* Serialize for an integer, a bool or a &str.
Serialize_Leaf(x) ==
    IF x.type = "str" THEN serialize_str(x.v) ELSE Serialize_Int(x)

\* Serialize for Vec<T> (serialize_seq) and for [T; N] (serialize_tuple):
\* then serialize_element of each element.
Serialize_Seq(x) ==
    LET encs == [i \in 1..Len(x.elems) |-> Serialize_Leaf(x.elems[i])]
    IN  IF x.type = "seq" THEN collect_seq(Wide(Len(x.elems)), encs)
        ELSE collect_tuple(encs)

Serialize_Member(x) ==
    IF x.type \in { "seq", "tuple" } THEN Serialize_Seq(x)
    ELSE Serialize_Leaf(x)

\* The derived Serialize of a struct: serialize_struct, then
\* serialize_field of each field in declaration order.
Serialize_Struct(x) ==
    serialize_struct(Len(x.fields))
    \o Flatten([i \in 1..Len(x.fields) |->
                   serialize_field(x.fields[i].name,
                                   Serialize_Member(x.fields[i].value))])

\* Serialize for a value: the Serializer method serde calls for its shape.
\* Ok with the bytes written, or the error returned.
Serialize(x) ==
    CASE x.type \in IntTypes \cup { "bool", "str" } -> Ok(Serialize_Leaf(x))
      [] x.type \in { "seq", "tuple" } -> Ok(Serialize_Seq(x))
      [] x.type = "struct" -> Ok(Serialize_Struct(x))
      [] x.type = "char" -> serialize_char(x.v)
      [] x.type = "none" -> serialize_none
      [] x.type = "some" -> serialize_some(x.value)
      [] x.type = "unit_variant" -> Ok(serialize_unit_variant(x.index))
      [] x.type = "newtype_variant" ->
            Ok(serialize_newtype_variant(x.index, Serialize_Int(x.value)))
      [] x.type = "tuple_variant" ->
            Ok(serialize_tuple_variant(x.index, Len(x.fields))
               \o Fields(x.fields))
      [] x.type = "struct_variant" ->
            Ok(serialize_struct_variant(x.index, Len(x.fields))
               \o Fields(x.fields))
      [] x.type = "map" ->
            Ok(serialize_map(Len(x.entries)) \o Entries(x.entries))

\* value.serialize(&mut ser) on the client's Serializer: the bytes are
\* appended to its output.
serialize(x) ==
    /\ IF call = None THEN TRUE
       ELSE call[1].op = "serialize" /\ result[1].ok
    /\ Len(ser) < MaxSer
    /\ LET got == Serialize(x)
       IN  /\ call' = Some([op |-> "serialize", arg |-> x, before |-> ser])
           /\ result' = Some(IF got.ok THEN Ok(<< >>) ELSE got)
           /\ ser' = IF got.ok THEN ser \o got.val ELSE ser
    /\ UNCHANGED de
    /\ UNCHANGED builder_vars
    /\ UNCHANGED << thr, outs >>

(***************************************************************************)
(* The codec driven directly: a client that hands buffers to the decoder   *)
(* and values to a Serializer and a Deserializer of its own.               *)
(***************************************************************************)
\* One block on the wire: identifier, little-endian length of the body, body.
Frame(ident, body) == ident \o Le32(Wide(Len(body))) \o body

\* A footer on the wire.
FooterBytes(start) == Le32(Wide(start)) \o Le32(MAGIC)

\* An identifier no body type registers: b"XTRA".
Xtra_IDENT == << 88, 84, 82, 65 >>

\* Documents on the wire: END alone; a context of two bytes, NAME "a" and
\* END; NAME, a block of unregistered identifier with two bytes of body,
\* INFO and END; the reference buffer of the tests.
DocEnd == Frame(End_IDENT, << >>) \o FooterBytes(0)
DocNameEnd ==
    CtxData(2) \o Frame(Name_IDENT, << 97 >>) \o Frame(End_IDENT, << >>)
    \o FooterBytes(2)
DocXtra ==
    Frame(Name_IDENT, << 97 >>) \o Frame(Xtra_IDENT, << 7, 9 >>)
    \o Frame(Info_IDENT, Serialize_Info(SetupInfo))
    \o Frame(End_IDENT, << >>) \o FooterBytes(0)

\* The buffers handed to the decoder: every length below the footer's, and
\* the Documents above.
BufInputs ==
    { CtxData(n) : n \in 0..(size_of_Footer - 1) }
    \cup { DocEnd, DocNameEnd, DocXtra, BYTES }

\* The values handed to the Serializer.
U32(hi, lo) == [hi |-> hi, lo |-> lo]
IntInputs ==
    { [type |-> "u8", v |-> v] : v \in { 0, 52, 255 } }
    \cup { [type |-> "u16", v |-> v] : v \in { 0, 4660, 65535 } }
    \cup { [type |-> "u32", v |-> v] :
            v \in { U32(0, 0), U32(4660, 22136), U32(65535, 65535) } }
    \cup { [type |-> "u64", v |-> v] :
            v \in { [hi |-> U32(0, 0), lo |-> U32(0, 0)],
                    [hi |-> U32(291, 17767), lo |-> U32(35243, 52719)],
                    [hi |-> U32(65535, 65535), lo |-> U32(65535, 65535)] } }
    \cup { [type |-> "i8", v |-> v] : v \in { -128, -1, 52 } }
    \cup { [type |-> "i16", v |-> v] : v \in { -32768, -2, 4660 } }
    \cup { [type |-> "i32", v |-> v] :
            v \in { U32(-32768, 0), U32(-1, 65533), U32(4660, 22136) } }
    \cup { [type |-> "i64", v |-> v] :
            v \in { [hi |-> U32(-32768, 0), lo |-> U32(0, 0)],
                    [hi |-> U32(-1, 65535), lo |-> U32(65535, 65532)],
                    [hi |-> U32(291, 17767), lo |-> U32(35243, 52719)] } }

\* The indices of the variants handed to the Serializer: around each change
\* of width.
IndexInputs == { 0, 1, 2, 255, 256, 65535, 65536 }

PayloadInputs == << [type |-> "u8", v |-> 7], [type |-> "u16", v |-> 4660] >>

VariantInputs ==
    { [type |-> "unit_variant", index |-> i] : i \in IndexInputs }
    \cup { [type |-> "newtype_variant", index |-> i,
            value |-> PayloadInputs[2]] : i \in IndexInputs }
    \cup { [type |-> kind, index |-> i, fields |-> PayloadInputs] :
            kind \in { "tuple_variant", "struct_variant" }, i \in IndexInputs }

ShapeInputs ==
    { [type |-> "bool", v |-> v] : v \in BOOLEAN }
    \cup { [type |-> "char", v |-> 97],
           [type |-> "none"],
           [type |-> "some", value |-> PayloadInputs[1]],
           [type |-> "map",
            entries |-> << [key |-> PayloadInputs[1],
                            value |-> PayloadInputs[2]] >>] }

\* Vecs of up to MaxElems u16, a Vec of two strs, the array of 256 u16 of
\* the tests, an array of two i8, and the struct of the tests.
U16(v) == [type |-> "u16", v |-> v]
Str(v) == [type |-> "str", v |-> v]
StrsAB == [type |-> "seq", elems |-> << Str(<< 97 >>), Str(<< 98 >>) >>]
TestArray == [type |-> "tuple", elems |-> [i \in 1..256 |-> U16(4660)]]
TestStruct ==
    [type |-> "struct",
     fields |-> << [name |-> "int",
                    value |-> [type |-> "u32", v |-> U32(0, 1)]],
                   [name |-> "seq", value |-> StrsAB] >>]
SeqInputs ==
    { [type |-> "seq", elems |-> [i \in 1..n |-> U16(4660 + 255 * i)]] :
        n \in 0..MaxElems }
    \cup { StrsAB, TestArray, TestStruct,
           [type |-> "tuple",
            elems |-> << [type |-> "i8", v |-> -2],
                         [type |-> "i8", v |-> 52] >>] }

SerInputs == IntInputs \cup VariantInputs \cup ShapeInputs \cup SeqInputs

\* The buffers a Deserializer is made over, besides the Serializer's output.
DeInputs ==
    { << >>, << 0 >>, << 1 >>, << 2 >>, << 255 >>, << 52, 18 >>,
      << 1, 0, 0, 0 >>, << 120, 86, 52, 18 >>,
      << 239, 205, 171, 137, 103, 69, 35, 1 >>,
      << 1, 0, 0, 0, 97, 98 >> }

\* The struct of the tests as a type: Test { int: u32, seq: Vec<String> }.
TestStructType == [type |-> "struct", fields |-> << "u32", "Vec<String>" >>]

\* The types asked of the Deserializer; the enum is Execution, the Vecs are
\* Vec<u8> and Vec<u16>.
DeTypes ==
    { [type |-> t] :
        t \in IntTypes \cup { "f32", "f64", "bool", "char", "option", "any",
                              "map" } }
    \cup { [type |-> "enum", variants |-> 3] }
    \cup { [type |-> "seq", elem |-> t] : t \in { "u8", "u16" } }
    \cup { [type |-> "struct", fields |-> << "u8", "u16" >>], TestStructType }

\* The client is still there: its last call did not panic.
Alive == IF result = None THEN TRUE ELSE "panic" \notin DOMAIN result[1]

\* The client's last call, if any, was one of these.
After(ops) == call /= None /\ call[1].op \in ops

\* Deserializer::from_bytes: over a buffer of the client's, or over the
\* output of its Serializer.
Deserializer_from_bytes(input) ==
    /\ IF call = None THEN input \in DeInputs
       ELSE After({ "serialize" }) /\ Alive /\ input = ser
            /\ Len(ser) <= MaxDe
    /\ de' = input
    /\ call' = Some([op |-> "from_bytes", arg |-> input, before |-> << >>])
    /\ result' = None
    /\ UNCHANGED ser
    /\ UNCHANGED builder_vars
    /\ UNCHANGED << thr, outs >>

\* T::deserialize(&mut de) on the client's Deserializer.
deserialize(t) ==
    /\ After({ "from_bytes", "deserialize" })
    /\ Alive
    /\ LET got == Deserialize(de, t)
       IN  /\ call' = Some([op |-> "deserialize", arg |-> t, before |-> de])
           /\ result' = Some(got.res)
           /\ de' = got.de
    /\ UNCHANGED ser
    /\ UNCHANGED builder_vars
    /\ UNCHANGED << thr, outs >>

NextSerde ==
    \/ \E b \in BufInputs : call = None /\ try_from(b)
    \/ \E b \in BufInputs, checks \in BOOLEAN : call = None /\ decode(b, checks)
    \/ \E x \in SerInputs : serialize(x)
    \/ \E b \in DeInputs \cup { ser } : Deserializer_from_bytes(b)
    \/ \E t \in DeTypes : deserialize(t)

SpecSerde == Init /\ [][NextSerde]_vars

(***************************************************************************)
(* The codec's calls, as the properties speak of them.                     *)
(***************************************************************************)
\* The last call on the codec was op; what it was given; what came of it.
Called(op) == call /= None /\ call[1].op = op
Arg == call[1].arg
Res == result[1]
\* The call returned an error value; the call panicked.
Failed(r) == ~r.ok /\ "err" \in DOMAIN r
Panicked(r) == ~r.ok /\ "panic" \in DOMAIN r

\* C11: once the bytes to_bytes returned for a built Document have been
\* decoded, the decoding has succeeded and returned a Document with the
\* same context, the same blocks (identifier, length and body fields) in
\* the same order, and the same footer.
C11_RoundTrip ==
    (pc = "encoded" /\ Called("try_from") /\ Arg = output) =>
        /\ Res.ok
        /\ Res.val.ctx = Doc.ctx
        /\ Res.val.blx = Doc.blx
        /\ Res.val.end = Doc.end

(***************************************************************************)
(* C12                                                                     *)
(***************************************************************************)
\* The footer a buffer ends in.
FooterOf(b) ==
    [start |-> from_le_bytes(SubSeq(b, Len(b) - 7, Len(b) - 4)),
     magic |-> from_le_bytes(SubSeq(b, Len(b) - 3, Len(b)))]

\* The identifiers the walk over the block region of a buffer meets.
RegionIdents(b) == Walk(SubSeq(b, FooterOf(b).start.lo + 1, Len(b)))

\* A well-formed buffer: a footer with the magic and a start inside the
\* buffer, and from start on blocks that end exactly at the footer, the last
\* of them END.
WellFormed(b) ==
    /\ Len(b) >= 2 * size_of_Footer
    /\ FooterOf(b).magic = MAGIC
    /\ FooterOf(b).start.hi = 0
    /\ FooterOf(b).start.lo <= Len(b) - 2 * size_of_Footer
    /\ LET ids == RegionIdents(b)
       IN  /\ \A i \in 1..Len(ids) : ids[i] /= << >>
           /\ ids[Len(ids)] = End_IDENT

\* C12: Bess::try_from of a well-formed buffer succeeds, and to_bytes of the
\* Document it returns is the buffer.
C12_Idempotent ==
    (Called("try_from") /\ WellFormed(Arg)) =>
        /\ Res.ok
        /\ Serialize_Bess(Res.val) = Arg

(***************************************************************************)
(* C13                                                                     *)
(***************************************************************************)
\* The blocks of a block region followed by the footer, as identifier and
\* raw body.
RECURSIVE Frames(_)
Frames(rest) ==
    IF Len(rest) < 2 * size_of_Footer THEN << >>
    ELSE LET lo == rest[6] * 256 + rest[5]
         IN  << [ident |-> SubSeq(rest, 1, 4), raw |-> SubSeq(rest, 9, 8 + lo)] >>
             \o Frames(SubSeq(rest, 8 + lo + 1, Len(rest)))

Registered == { Name_IDENT, Info_IDENT, Core_IDENT, End_IDENT }

\* The buffer is well formed and one of its blocks has an identifier that
\* is not registered.
HasUnknown(b) ==
    /\ WellFormed(b)
    /\ \E i \in 1..Len(RegionIdents(b)) : RegionIdents(b)[i] \notin Registered

\* C13: decoding a well-formed buffer with a block of unregistered
\* identifier succeeds; the Document has one block per block of the buffer,
\* in order, each with the identifier and length of the buffer's, and the
\* unregistered ones with their raw body bytes.
C13_UnknownKept ==
    ((Called("try_from") \/ Called("decode")) /\ HasUnknown(Arg)) =>
        /\ Res.ok
        /\ LET fs == Frames(SubSeq(Arg, FooterOf(Arg).start.lo + 1, Len(Arg)))
           IN  /\ Len(Res.val.blx) = Len(fs)
               /\ \A i \in 1..Len(fs) :
                    /\ Res.val.blx[i].head.ident = fs[i].ident
                    /\ Res.val.blx[i].head.len = Wide(Len(fs[i].raw))
                    /\ fs[i].ident \notin Registered
                           => Res.val.blx[i].body = fs[i].raw

(***************************************************************************)
(* C14                                                                     *)
(***************************************************************************)
\* C14: decoding a buffer shorter than the footer returns the error
\* TooShort.
C14_TooShort ==
    ((Called("try_from") \/ Called("decode")) /\ Len(Arg) < size_of_Footer) =>
        Res = Err([kind |-> "TooShort"])

(***************************************************************************)
(* C15                                                                     *)
(***************************************************************************)
\* The little-endian bytes of an integer value, least significant first.
Le16(n) == << n % 256, n \div 256 >>
LeOf(x) ==
    CASE x.type = "u8" -> << x.v >>
      [] x.type = "i8" -> << x.v % 256 >>
      [] x.type = "u16" -> Le16(x.v)
      [] x.type = "i16" -> Le16(x.v % Half)
      [] x.type = "u32" -> Le16(x.v.lo) \o Le16(x.v.hi)
      [] x.type = "i32" -> Le16(x.v.lo) \o Le16(x.v.hi % Half)
      [] x.type = "u64" ->
            Le16(x.v.lo.lo) \o Le16(x.v.lo.hi)
            \o Le16(x.v.hi.lo) \o Le16(x.v.hi.hi)
      [] x.type = "i64" ->
            Le16(x.v.lo.lo) \o Le16(x.v.lo.hi)
            \o Le16(x.v.hi.lo) \o Le16(x.v.hi.hi % Half)

Unsupported == Err([kind |-> "Unsupported"])

\* Encoding an optional value or a char, and decoding an optional value, a
\* char or an `any`, returns Unsupported and leaves output and input alone.
RefusedShapes ==
    /\ (Called("serialize") /\ Arg.type \in { "none", "some", "char" })
            => (Res = Unsupported /\ ser = call[1].before)
    /\ (Called("deserialize") /\ Arg.type \in { "option", "char", "any" })
            => (Res = Unsupported /\ de = call[1].before)

C16_Bool ==
    (Called("deserialize") /\ Arg.type = "bool" /\ call[1].before /= << >>) =>
        LET byte == call[1].before[1]
        IN  /\ byte = 0 => Res = Ok(FALSE)
            /\ byte = 1 => Res = Ok(TRUE)
            /\ byte \notin { 0, 1 } => Failed(Res)

(***************************************************************************)
(* C17                                                                     *)
(***************************************************************************)
FixedWidth == IntTypes \cup { "bool", "f32", "f64" }

\* C17: a fixed-width primitive asked of a Deserializer whose input is
\* shorter than its width returns the error TooShort.
C17_TooShort ==
    (/\ Called("deserialize")
     /\ Arg.type \in FixedWidth
     /\ Len(call[1].before) < size_of(Arg.type)) =>
        Res = Err([kind |-> "TooShort"])

(***************************************************************************)
(* C18                                                                     *)
(***************************************************************************)
\* The tag of a variant: its index in 1 byte if it fits, else in 2, else
\* in 4, little-endian.
Tag(index) ==
    IF index <= 255 THEN << index >>
    ELSE IF index <= 65535 THEN Le16(index)
    ELSE Le16(index % Half) \o Le16(index \div Half)

\* The payload of a variant: nothing, the value, or the fields in order.
Payload(x) ==
    CASE x.type = "unit_variant" -> << >>
      [] x.type = "newtype_variant" -> LeOf(x.value)
      [] x.type \in { "tuple_variant", "struct_variant" } ->
            Flatten([i \in 1..Len(x.fields) |-> LeOf(x.fields[i])])

VariantTypes ==
    { "unit_variant", "newtype_variant", "tuple_variant", "struct_variant" }

\* C18: encoding a variant appends its tag and then its payload.
C18_Tagged ==
    (Called("serialize") /\ Arg.type \in VariantTypes) =>
        /\ Res.ok
        /\ ser = call[1].before \o Tag(Arg.index) \o Payload(Arg)

(***************************************************************************)
(* C19                                                                     *)
(***************************************************************************)
\* C19: an enum of zero-field variants asked of a Deserializer whose input
\* begins with the one-byte tag of one of its variants returns that variant
\* and consumes that byte only.
C19_TagWidth ==
    (/\ Called("deserialize")
     /\ Arg.type = "enum"
     /\ call[1].before /= << >>
     /\ call[1].before[1] < Arg.variants) =>
        /\ Res = Ok([index |-> call[1].before[1]])
        /\ de = Tail(call[1].before)

(***************************************************************************)
(* C20                                                                     *)
(***************************************************************************)
\* The value is one of its type.
InRange(type, v) ==
    CASE type = "u8" -> v \in 0..255
      [] type = "i8" -> v \in -128..127
      [] type = "u16" -> v \in 0..65535
      [] type = "i16" -> v \in -32768..32767
      [] type = "u32" -> v.hi \in 0..65535 /\ v.lo \in 0..65535
      [] type = "i32" -> v.hi \in -32768..32767 /\ v.lo \in 0..65535
      [] type = "u64" ->
            /\ v.hi.hi \in 0..65535 /\ v.hi.lo \in 0..65535
            /\ v.lo.hi \in 0..65535 /\ v.lo.lo \in 0..65535
      [] type = "i64" ->
            /\ v.hi.hi \in -32768..32767 /\ v.hi.lo \in 0..65535
            /\ v.lo.hi \in 0..65535 /\ v.lo.lo \in 0..65535

\* C20: encoding an integer of w bits appends its w/8 little-endian bytes
\* and nothing else; decoding an integer of w bits from an input of at least
\* w/8 bytes returns the value of the type whose little-endian bytes are the
\* first w/8 bytes of the input, and leaves the input after them.
C20_LittleEndian ==
    /\ (Called("serialize") /\ Arg.type \in IntTypes) =>
            /\ Res.ok
            /\ ser = call[1].before \o LeOf(Arg)
            /\ Len(ser) = Len(call[1].before) + size_of(Arg.type)
    /\ (/\ Called("deserialize")
        /\ Arg.type \in IntTypes
        /\ Len(call[1].before) >= size_of(Arg.type)) =>
            LET n == size_of(Arg.type)
                before == call[1].before
            IN  /\ Res.ok
                /\ InRange(Arg.type, Res.val)
                /\ LeOf([type |-> Arg.type, v |-> Res.val])
                       = SubSeq(before, 1, n)
                /\ de = SubSeq(before, n + 1, Len(before))

\* C20 witness: the u8 0x34 and then the u16 0x1234 were encoded, the
\* output 34 34 12 handed to a Deserializer, a u8 and then a u16 decoded
\* from it: the u16 is 0x1234 and the input is used up.
C20_Witness ==
    /\ Called("deserialize")
    /\ Arg.type = "u16"
    /\ ser = << 52, 52, 18 >>
    /\ call[1].before = << 52, 18 >>
    /\ Res = Ok(4660)
    /\ de = << >>

(***************************************************************************)
(* C21                                                                     *)
(***************************************************************************)
\* The bytes an integer or a str stands for on the wire: its little-endian
\* bytes, its UTF-8 bytes.
LeafWire(x) == IF x.type = "str" THEN x.v ELSE LeOf(x)

\* The same for an element of a Vec or array and for a field of a struct.
MemberWire(x) ==
    IF x.type \in { "seq", "tuple" }
    THEN Concat([i \in 1..Len(x.elems) |-> LeafWire(x.elems[i])],
                1, Len(x.elems))
    ELSE LeafWire(x)

\* The encodings of the elements of a Vec or array, of the fields of a
\* struct, in positional and declaration order.
Parts(x) ==
    IF x.type = "struct"
    THEN [i \in 1..Len(x.fields) |-> MemberWire(x.fields[i].value)]
    ELSE [i \in 1..Len(x.elems) |-> MemberWire(x.elems[i])]

\* The sum of the lengths of ss[lo], .., ss[hi].
RECURSIVE SumLen(_, _, _)
SumLen(ss, lo, hi) ==
    IF lo > hi THEN 0
    ELSE IF lo = hi THEN Len(ss[lo])
    ELSE SumLen(ss, lo, (lo + hi) \div 2)
         + SumLen(ss, (lo + hi) \div 2 + 1, hi)

\* C21: encoding a Vec, an array or a struct appends the encodings of its
\* elements or fields in order and nothing else (no count, no field name),
\* so the output grows by the sum of their lengths; the array of 256 u16
\* gives 512 bytes and the struct {int: 1, seq: ["a", "b"]} gives
\* 01 00 00 00 61 62.
C21_Positional ==
    (Called("serialize") /\ Arg.type \in { "seq", "tuple", "struct" }) =>
        LET parts == Parts(Arg)
            before == call[1].before
        IN  /\ Res.ok
            /\ ser = before \o Concat(parts, 1, Len(parts))
            /\ Len(ser) = Len(before) + SumLen(parts, 1, Len(parts))
            /\ Arg = TestArray => Len(ser) = Len(before) + 512
            /\ Arg = TestStruct => ser = before \o << 1, 0, 0, 0, 97, 98 >>

\* C21 witness: the struct of the tests was encoded by a fresh Serializer.
C21_Witness ==
    /\ Called("serialize")
    /\ Arg = TestStruct
    /\ ser = << 1, 0, 0, 0, 97, 98 >>

(***************************************************************************)
(* to_bytes(&Bess) called from several threads.  Every call builds its own *)
(* Serializer and drives the derived Bess::serialize over it: the struct   *)
(* and its ctx field, the blocks of blx one serialize_element at a time,   *)
(* the end field, and then returns the Serializer's output.  The threads   *)
(* only read the Document.                                                 *)
(***************************************************************************)
\* A Serializer that all calls share.
Serializer_shared(t) == 1

\* let mut ser = Serializer::default(): the Serializer thread t's call
\* writes to is a local of that call.
Serializer_output(t) == t

Serializer_default(t) ==
    /\ Built
    /\ thr[t].pc \in { "idle", "done" }
    /\ outs' = [outs EXCEPT ![Serializer_output(t)] = << >>]
    /\ thr' = [thr EXCEPT ![t] = [pc |-> "ctx", i |-> 0, ret |-> None]]
    /\ UNCHANGED builder_vars
    /\ UNCHANGED serde_vars

\* serialize_struct("Bess", 3), serialize_field("ctx", &self.ctx), and the
\* serialize_seq that opens serialize_field("blx", &self.blx)
Bess_serialize_ctx(t) ==
    /\ Built
    /\ thr[t].pc = "ctx"
    /\ outs' = [outs EXCEPT ![Serializer_output(t)] =
                    @ \o serialize_struct(3)
                      \o serialize_field("ctx",
                                         collect_seq(BufLen(bess[1].ctx),
                                                     EachU8(bess[1].ctx)))
                      \o serialize_seq(Wide(Len(bess[1].blx)))]
    /\ thr' = [thr EXCEPT ![t].pc = "blx", ![t].i = 1]
    /\ UNCHANGED builder_vars
    /\ UNCHANGED serde_vars

\* SerializeSeq::serialize_element over the next Block of blx
Bess_serialize_blx(t) ==
    /\ Built
    /\ thr[t].pc = "blx"
    /\ thr[t].i <= Len(bess[1].blx)
    /\ outs' = [outs EXCEPT ![Serializer_output(t)] =
                    @ \o serialize_element(
                             Serialize_Block(bess[1].blx[thr[t].i]))]
    /\ thr' = [thr EXCEPT ![t].i = @ + 1]
    /\ UNCHANGED builder_vars
    /\ UNCHANGED serde_vars

\* serialize_field("end", &self.end) and SerializeStruct::end
Bess_serialize_end(t) ==
    /\ Built
    /\ thr[t].pc = "blx"
    /\ thr[t].i > Len(bess[1].blx)
    /\ outs' = [outs EXCEPT ![Serializer_output(t)] =
                    @ \o serialize_field("end", Serialize_Footer(bess[1].end))]
    /\ thr' = [thr EXCEPT ![t].pc = "return"]
    /\ UNCHANGED builder_vars
    /\ UNCHANGED serde_vars

\* ser.output, the value of the call
to_bytes_return(t) ==
    /\ Built
    /\ thr[t].pc = "return"
    /\ thr' = [thr EXCEPT ![t].pc = "done",
                          ![t].ret = Some(outs[Serializer_output(t)])]
    /\ UNCHANGED outs
    /\ UNCHANGED builder_vars
    /\ UNCHANGED serde_vars

\* The Documents the threads share are built from the name and Core of
\* the tests, extra Name and End blocks, and a context of one byte.
NextThreads ==
    \/ Builder_name(<< 98, 101, 115, 115 >>)
    \/ Builder_core(SetupCore)
    \/ \E body \in { Name_new(<< 120 >>), End } : Builder_block(body)
    \/ Builder_build(CtxData(1))
    \/ to_bytes
    \/ \E t \in Threads : Serializer_default(t)
    \/ \E t \in Threads : Bess_serialize_ctx(t)
    \/ \E t \in Threads : Bess_serialize_blx(t)
    \/ \E t \in Threads : Bess_serialize_end(t)
    \/ \E t \in Threads : to_bytes_return(t)

SpecThreads == Init /\ [][NextThreads]_vars

(***************************************************************************)
(* C22                                                                     *)
(***************************************************************************)
\* The widths of the fields before field i of a struct of fixed-width
\* fields.
Offset(fields, i) == SumLen([j \in 1..Len(fields) |-> [k \in 1..size_of(fields[j]) |-> 0]], 1, i - 1)

\* C22: a Vec of fixed-width elements asked of a Deserializer over exactly
\* n elements' bytes is returned with its n elements in order; a struct of
\* fixed-width fields asked over at least its fields' bytes is returned
\* with its fields read in declaration order from consecutive bytes; and
\* the struct of the tests asked over 01 00 00 00 61 62 is
\* {int: 1, seq: ["a", "b"]}.
C22_Decoded ==
    /\ (/\ Called("deserialize")
        /\ Arg.type = "seq"
        /\ Len(call[1].before) % size_of(Arg.elem) = 0) =>
            LET w == size_of(Arg.elem)
                before == call[1].before
            IN  /\ Res.ok
                /\ Len(Res.val) * w = Len(before)
                /\ \A i \in 1..Len(Res.val) :
                      /\ InRange(Arg.elem, Res.val[i])
                      /\ LeOf([type |-> Arg.elem, v |-> Res.val[i]])
                             = SubSeq(before, (i - 1) * w + 1, i * w)
    /\ (/\ Called("deserialize")
        /\ Arg.type = "struct"
        /\ Arg /= TestStructType
        /\ Len(call[1].before) >= Offset(Arg.fields, Len(Arg.fields) + 1)) =>
            /\ Res.ok
            /\ Len(Res.val) = Len(Arg.fields)
            /\ \A i \in 1..Len(Arg.fields) :
                  /\ InRange(Arg.fields[i], Res.val[i])
                  /\ LeOf([type |-> Arg.fields[i], v |-> Res.val[i]])
                         = SubSeq(call[1].before,
                                  Offset(Arg.fields, i) + 1,
                                  Offset(Arg.fields, i + 1))
    /\ (/\ Called("deserialize")
        /\ Arg = TestStructType
        /\ call[1].before = << 1, 0, 0, 0, 97, 98 >>) =>
            Res = Ok(<< U32(0, 1), << << 97 >>, << 98 >> >> >>)

(***************************************************************************)
(* C23                                                                     *)
(***************************************************************************)
\* C23: no step taken once the Document is built changes it; and every
\* to_bytes(&bess) that has returned, whatever the other threads' calls
\* were doing meanwhile and however many calls came before it, returned
\* the bytes of one encode of the Document run alone, which are also the
\* bytes the single to_bytes call returned if it was made.
C23_SharedEncode ==
    /\ [][Built => (Built' /\ bess' = bess)]_vars
    /\ [](\A t \in Threads :
            (Built /\ thr[t].pc = "done") =>
                /\ thr[t].ret = Some(Serialize_Bess(bess[1]))
                /\ pc = "encoded" => thr[t].ret = Some(output))

\* One thread has returned from its encode of a Document with extra
\* blocks, the single encode was made too, and another thread is in the
\* middle of its own encode of the same Document.
C23_Witness ==
    /\ pc = "encoded"
    /\ Len(bess[1].blx) > 3
    /\ thr[1].pc = "done"
    /\ thr[1].ret = Some(output)
    /\ thr[2].pc = "blx"
    /\ thr[2].i = 2
    /\ outs[2] /= << >>

(***************************************************************************)
(* C24                                                                     *)
(***************************************************************************)
\* The slot a name() call with the given argument leaves.
NameSlot(n) == IF n = None THEN None ELSE Some([kind |-> "Name", s |-> n[1]])

\* What one builder call may change: name(), info() and core() set their
\* own slot to their argument and nothing else of the Builder; block() adds
\* its body's block after the extra blocks already there and nothing else;
\* and no slot changes without a call of its kind.
FrameStep ==
    /\ (calls'.name /= calls.name \/ name' /= name) =>
           /\ name' = NameSlot(calls'.name)
           /\ UNCHANGED << info, core, xtra >>
           /\ calls'.blocks = calls.blocks
    /\ (calls'.info /= calls.info \/ info' /= info) =>
           /\ info' = calls'.info
           /\ UNCHANGED << name, core, xtra >>
           /\ calls'.blocks = calls.blocks
    /\ (calls'.core /= calls.core \/ core' /= core) =>
           /\ core' = calls'.core
           /\ UNCHANGED << name, info, xtra >>
           /\ calls'.blocks = calls.blocks
    /\ (calls'.blocks /= calls.blocks \/ xtra' /= xtra) =>
           /\ UNCHANGED << name, info, core >>
           /\ Len(calls'.blocks) = Len(calls.blocks) + 1
           /\ Len(xtra') = Len(xtra) + 1
           /\ SubSeq(xtra', 1, Len(xtra)) = xtra
           /\ xtra'[Len(xtra')].body = calls'.blocks[Len(calls'.blocks)]
           /\ xtra'[Len(xtra')].head.ident = Data_ident(xtra'[Len(xtra')].body)

\* C24: every step of the builder changes only what its call owns (see
\* FrameStep); at all times each of the name, info and core slots holds the
\* argument of the last call of its kind (or nothing if there was none) and
\* the extra list holds the bodies of the block() calls in call order; and
\* the Document build returns has the blocks of those last calls.
C24_Frame ==
    /\ [][FrameStep]_vars
    /\ [](/\ name = NameSlot(calls.name)
          /\ info = calls.info
          /\ core = calls.core
          /\ Len(xtra) = Len(calls.blocks)
          /\ \A i \in 1..Len(xtra) : xtra[i].body = calls.blocks[i]
          /\ Built => Bodies = CalledBodies)

\* The builder after name(), info(), core() and two block() calls with
\* different bodies, the name being the second of the names tried.
C24_Witness ==
    /\ pc = "builder"
    /\ name = Some([kind |-> "Name", s |-> << 97 >>])
    /\ info /= None
    /\ core /= None
    /\ Len(xtra) = 2
    /\ xtra[1] /= xtra[2]
====
